---- MODULE Spec2Model ----
(***************************************************************************)
(* A model of the single-file modularity analyzer                          *)
(* (back/test_backend.py, class SingleFileModularityAnalyzer).             *)
(*                                                                         *)
(* One analyzer object runs analyze_file: the stages _ast_analyze,         *)
(* _radon_analyze, _difflib_analyze, _identify_modularity_issues and       *)
(* _generate_refactoring_plan, in that order.  What the parser (ast) and   *)
(* the metrics provider (radon) answer for the source text is the          *)
(* environment's input, held in the variable file.                         *)
(*                                                                         *)
(* Representation.                                                         *)
(*   - a string that the code only compares (a function name, a call       *)
(*     target, an issue type) is a TLA+ string;                            *)
(*   - a source text is the sequence of its lines (source.split('\n')),    *)
(*     and a line is the sequence of its characters;                       *)
(*   - a float is an exact fraction [num, den] with den > 0;               *)
(*   - a dict is a function on its key set; a dict whose insertion order   *)
(*     is read (duplication_map) is the sequence of its (key, value)       *)
(*     items.                                                              *)
(***************************************************************************)
EXTENDS Integers, Sequences, FiniteSets, TLC

VARIABLES
    file,                    \* what ast and radon answer for the source text
    pc,                      \* the position inside analyze_file
    module_data,             \* self.module_data
    function_relationships,  \* self.function_relationships
    duplication_map,         \* self.duplication_map
    complexity_scores,       \* self.complexity_scores
    issues,                  \* the local issues of analyze_file
    suggestions,             \* the value analyze_file returns
    raised,                  \* the exception that left analyze_file, or "none"
    completed_runs,          \* what the earlier analyze_file calls on the
                             \* object left, one record for each
    code,                    \* the text a request to /analyze submits
    handler_pc,              \* the position inside the handler analyze
    tmp_file,                \* the temporary file of the request
    response                 \* the response of the handler

\* the variables of the request handler (back/main.py)
handler_vars == <<code, handler_pc, tmp_file, response>>

vars == <<file, pc, module_data, function_relationships, duplication_map,
          complexity_scores, issues, suggestions, raised, completed_runs,
          handler_vars>>

(***************************************************************************)
(* Bounds of the model.                                                    *)
(***************************************************************************)
\* functions written out one by one in a file of the rule family
MaxCore == 1
\* functions in a file of the graph family
MaxFuncs == 3
\* functions in a file that is analyzed again or sent in a request
MaxSmallFuncs == 2
\* further calls of analyze_file on one analyzer object
MaxReruns == 1

(***************************************************************************)
(* Thresholds of the program.                                              *)
(***************************************************************************)
LargeFileSloc == 500
TooManyFunctions == 20
ComplexThreshold == 10
DuplicateThresholdPct == 70
HighSimilarityPct == 85
HighSimilarityPairs == 3
OrphanThreshold == 5
GodFunctionLines == 50
MaintainabilityThreshold == 65
CohesionThresholdPct == 30
MixedFunctionCount == 10
ProceduralFunctionCount == 15
RelatedSharedCalls == 2

(***************************************************************************)
(* Generic helpers.                                                        *)
(***************************************************************************)
EmptyDict == [k \in {} |-> 0]

Range(s) == {s[i] : i \in DOMAIN s}

Min(a, b) == IF a <= b THEN a ELSE b

\* the concatenation of ss[lo], ..., ss[hi], by halves
RECURSIVE FlattenRange(_, _, _)
FlattenRange(ss, lo, hi) ==
    IF lo > hi THEN <<>>
    ELSE IF lo = hi THEN ss[lo]
    ELSE LET mid == (lo + hi) \div 2
         IN  FlattenRange(ss, lo, mid) \o FlattenRange(ss, mid + 1, hi)

Flatten(ss) == FlattenRange(ss, 1, Len(ss))

\* s[lo] + ... + s[hi], by halves
RECURSIVE SumRange(_, _, _)
SumRange(s, lo, hi) ==
    IF lo > hi THEN 0
    ELSE IF lo = hi THEN s[lo]
    ELSE LET mid == (lo + hi) \div 2
         IN  SumRange(s, lo, mid) + SumRange(s, mid + 1, hi)

SumSeq(s) == SumRange(s, 1, Len(s))

\* max(s, default=default)
MaxSeq(s, default) ==
    IF s = <<>> THEN default
    ELSE CHOOSE m \in Range(s) : \A x \in Range(s) : m >= x

\* a fraction against a percentage: num/den > pct/100, num/den < pct/100
FracGtPct(r, pct) == r.num * 100 > pct * r.den
FracLtPct(r, pct) == r.num * 100 < pct * r.den
One == [num |-> 1, den |-> 1]

(***************************************************************************)
(* str.strip(), str.startswith('#'), '\n'.join(...) on lines of characters.*)
(***************************************************************************)
RECURSIVE LStrip(_)
LStrip(line) ==
    IF line # <<>> /\ Head(line) = " " THEN LStrip(Tail(line)) ELSE line

RECURSIVE RStrip(_)
RStrip(line) ==
    IF line # <<>> /\ line[Len(line)] = " "
    THEN RStrip(SubSeq(line, 1, Len(line) - 1))
    ELSE line

Strip(line) == RStrip(LStrip(line))

RECURSIVE Join(_)
Join(lines) ==
    IF lines = <<>> THEN <<>>
    ELSE IF Len(lines) = 1 THEN Head(lines)
    ELSE Head(lines) \o <<"\n">> \o Join(Tail(lines))

\* len(source.split('\n'))
LineCount(source) == Len(source)

\* not source: the empty string splits into one empty line
IsEmptySource(source) == source = << <<>> >>

\* a line the loop keeps: not empty after strip(), not a comment
IsCodeLine(stripped) == stripped # <<>> /\ Head(stripped) # "#"

NormalizedLines(lines) ==
    SelectSeq([i \in DOMAIN lines |-> Strip(lines[i])], IsCodeLine)

_normalize_code(source) ==
    IF IsEmptySource(source) THEN <<>> ELSE Join(NormalizedLines(source))

(***************************************************************************)
(* difflib.SequenceMatcher(None, a, b).ratio() for sequences shorter than  *)
(* 200 elements (no junk, no popular-element heuristic): the longest       *)
(* matching block, earliest in a and then earliest in b, then the same to  *)
(* its left and to its right; ratio = 2 * matched / (len(a) + len(b)).     *)
(* Positions are 0-based and ranges half-open, as in difflib.              *)
(***************************************************************************)
RECURSIVE RunLen(_, _, _, _, _, _)
RunLen(a, b, i, j, ahi, bhi) ==
    IF i < ahi /\ j < bhi /\ a[i + 1] = b[j + 1]
    THEN 1 + RunLen(a, b, i + 1, j + 1, ahi, bhi)
    ELSE 0

FindLongestMatch(a, b, alo, ahi, blo, bhi) ==
    LET cand  == {<<i, j, RunLen(a, b, i, j, ahi, bhi)>> :
                        i \in alo..(ahi - 1), j \in blo..(bhi - 1)}
        found == {c \in cand : c[3] > 0}
    IN  IF found = {} THEN <<alo, blo, 0>>
        ELSE CHOOSE c \in found :
                \A d \in found :
                    \/ c[3] > d[3]
                    \/ c[3] = d[3] /\ c[1] < d[1]
                    \/ c[3] = d[3] /\ c[1] = d[1] /\ c[2] <= d[2]

RECURSIVE MatchedTotal(_, _, _, _, _, _)
MatchedTotal(a, b, alo, ahi, blo, bhi) ==
    IF alo >= ahi \/ blo >= bhi THEN 0
    ELSE LET m == FindLongestMatch(a, b, alo, ahi, blo, bhi)
         IN  IF m[3] = 0 THEN 0
             ELSE m[3] + MatchedTotal(a, b, alo, m[1], blo, m[2])
                       + MatchedTotal(a, b, m[1] + m[3], ahi, m[2] + m[3], bhi)

SequenceMatcherRatio(a, b) ==
    IF Len(a) + Len(b) = 0 THEN One
    ELSE [num |-> 2 * MatchedTotal(a, b, 0, Len(a), 0, Len(b)),
          den |-> Len(a) + Len(b)]

(***************************************************************************)
(* Names.  The code asks three things of a function name: whether it       *)
(* starts with '_', whether it is 'main' or '__init__', and whether it     *)
(* contains 'test_'.  Over the names of the model these are the sets       *)
(* below.                                                                  *)
(***************************************************************************)
FillerNames ==
    <<"g01", "g02", "g03", "g04", "g05", "g06", "g07", "g08", "g09", "g10",
      "g11", "g12", "g13", "g14", "g15", "g16", "g17", "g18", "g19", "g20",
      "g21", "g22", "g23", "g24", "g25", "g26">>

UnderscoreNames == {"_p", "__init__"}
TestNames == {"test_t"}

\* node.name.startswith('_')
StartsWithUnderscore(name) == name \in UnderscoreNames
\* 'test_' in name
ContainsTest(name) == name \in TestNames

(***************************************************************************)
(* _build_function_relationships                                           *)
(***************************************************************************)
\* for func in functions: self.function_relationships[func['name']] = {...}:
\* a name holds the entry of the last function of that name
RelInit(rel, fs) ==
    LET names == {fs[i].name : i \in DOMAIN fs}
        LastOf(name) == CHOOSE i \in DOMAIN fs :
                            /\ fs[i].name = name
                            /\ \A j \in (i + 1)..Len(fs) : fs[j].name # name
    IN  [name \in DOMAIN rel \cup names |->
            IF name \in names
            THEN [calls |-> fs[LastOf(name)].calls,
                  called_by |-> <<>>,
                  related_functions |-> <<>>]
            ELSE rel[name]]

\* CalledByAppends without the test on the call: every call of a function
\* appends the function's name
CalledByAppendsAnyCall(fs, name) ==
    Flatten([i \in DOMAIN fs |->
        [c \in DOMAIN fs[i].calls |-> fs[i].name]])

\* CalledByAppends that passes over a function's calls of itself
CalledByAppendsOthersOnly(fs, name) ==
    Flatten([i \in DOMAIN fs |->
        Flatten([c \in DOMAIN fs[i].calls |->
            IF fs[i].calls[c] = name /\ fs[i].name # name
            THEN <<fs[i].name>> ELSE <<>>])])

\* what the loops append to rel[name]['called_by']: for func in functions,
\* for call in func['calls'], func's name if call is name
CalledByAppends(fs, name) ==
    Flatten([i \in DOMAIN fs |->
        Flatten([c \in DOMAIN fs[i].calls |->
            IF fs[i].calls[c] = name THEN <<fs[i].name>> ELSE <<>>])])

\* if call in self.function_relationships: only the entries of rel grow
RelCalledBy(rel, fs) ==
    [name \in DOMAIN rel |->
        [rel[name] EXCEPT !.called_by = @ \o CalledByAppends(fs, name)]]

\* len(set(func1['calls']) & set(func2['calls'])) >= 2
SharesCalls(func1, func2) ==
    Cardinality(Range(func1.calls) \cap Range(func2.calls)) >= RelatedSharedCalls

\* the pairs (i, j), i < j, of the double loop whose functions share calls,
\* in the order the loop meets them
SharingPairs(fs) ==
    Flatten([i \in DOMAIN fs |->
        Flatten([j \in DOMAIN fs |->
            IF j > i /\ SharesCalls(fs[i], fs[j])
            THEN << <<i, j>> >> ELSE <<>>])])

\* RelatedAppends without the second append: only func1's list grows
RelatedAppendsOneWay(fs, sharing, name) ==
    Flatten([k \in DOMAIN sharing |->
        IF fs[sharing[k][1]].name = name
        THEN <<fs[sharing[k][2]].name>> ELSE <<>>])

\* what the double loop appends to rel[name]['related_functions']: at a
\* sharing pair, func2's name to func1's list, then func1's name to func2's
RelatedAppends(fs, sharing, name) ==
    Flatten([k \in DOMAIN sharing |->
        LET func1 == fs[sharing[k][1]]
            func2 == fs[sharing[k][2]]
        IN  (IF func1.name = name THEN <<func2.name>> ELSE <<>>)
            \o (IF func2.name = name THEN <<func1.name>> ELSE <<>>)])

RelRelated(rel, fs) ==
    LET sharing == SharingPairs(fs)
    IN  [name \in DOMAIN rel |->
            [rel[name] EXCEPT !.related_functions =
                                @ \o RelatedAppends(fs, sharing, name)]]

_build_function_relationships(rel, functions) ==
    RelRelated(RelCalledBy(RelInit(rel, functions), functions), functions)

(***************************************************************************)
(* _calculate_file_cohesion                                                *)
(***************************************************************************)
\* sum(len(rel.get('called_by', [])) + len(rel.get('related_functions', []))
\*     for rel in self.function_relationships.values())
SumRelationships(rel, keys) ==
    Cardinality(UNION {{k} \X DOMAIN rel[k].called_by : k \in keys})
    + Cardinality(UNION {{k} \X DOMAIN rel[k].related_functions : k \in keys})

\* _calculate_file_cohesion without min(1.0, ...)
CohesionUnclamped(functions, rel) ==
    LET n     == Len(functions)
        total == SumRelationships(rel, DOMAIN rel)
    IN  IF n < 2 THEN One ELSE [num |-> total, den |-> n * (n - 1)]

\* (total / 2) / (n * (n - 1) / 2), at most 1.0; n * (n - 1) is even
_calculate_file_cohesion(functions, rel) ==
    LET n        == Len(functions)
        total    == SumRelationships(rel, DOMAIN rel)
        possible == (n * (n - 1)) \div 2
    IN  IF n < 2 THEN One
        ELSE IF possible = 0 THEN One
        ELSE IF total > 2 * possible THEN One
        ELSE [num |-> total, den |-> 2 * possible]

(***************************************************************************)
(* _cluster_functions                                                      *)
(***************************************************************************)
\* relationships.get('related_functions', []) of rel.get(name, {})
RelatedOf(rel, name) ==
    IF name \in DOMAIN rel THEN rel[name].related_functions ELSE <<>>

\* PullRelated without the test on assigned
PullRelatedUnchecked(cluster, assigned, related) ==
    [cluster |-> cluster \o related,
     assigned |-> assigned \cup Range(related)]

\* for related in ...: if related not in assigned: append, add.  A name is
\* appended where it is first in the list, if it was not assigned before
PullRelated(cluster, assigned, related) ==
    LET IsNew(k) == /\ related[k] \notin assigned
                    /\ \A m \in 1..(k - 1) : related[m] # related[k]
        new      == SelectSeq([k \in DOMAIN related |-> k], IsNew)
    IN  [cluster |-> cluster \o [n \in DOMAIN new |-> related[new[n]]],
         assigned |-> assigned \cup Range(related)]

\* ClusterStep that goes on from the functions it pulled in: the cluster
\* also receives what is related to its members
ClusterStepTransitive(loop, func, rel) ==
    IF func.name \in loop.assigned THEN loop
    ELSE LET p == PullRelated(<<func.name>>,
                              loop.assigned \cup {func.name},
                              RelatedOf(rel, func.name))
             q == PullRelated(p.cluster, p.assigned,
                              Flatten([i \in DOMAIN p.cluster |->
                                            RelatedOf(rel, p.cluster[i])]))
         IN  [clusters |-> Append(loop.clusters, q.cluster),
              assigned |-> q.assigned]

\* ClusterStep that starts a cluster only for a function with related
\* functions: a function without any is left to the step after the loop
ClusterStepLeavesLoners(loop, func, rel) ==
    IF func.name \in loop.assigned \/ RelatedOf(rel, func.name) = <<>>
    THEN loop
    ELSE LET p == PullRelated(<<func.name>>,
                              loop.assigned \cup {func.name},
                              RelatedOf(rel, func.name))
         IN  [clusters |-> Append(loop.clusters, p.cluster),
              assigned |-> p.assigned]

\* one turn of the main loop, for the function func
ClusterStep(loop, func, rel) ==
    IF func.name \in loop.assigned THEN loop
    ELSE LET p == PullRelated(<<func.name>>,
                              loop.assigned \cup {func.name},
                              RelatedOf(rel, func.name))
         IN  [clusters |-> Append(loop.clusters, p.cluster),
              assigned |-> p.assigned]

\* the main loop: [clusters, assigned] after the turns for fs[lo], ...,
\* fs[hi], from loop.  The turns are taken by halves, the first half
\* before the second; a turn for an assigned name changes nothing, so the
\* second half is left out when all its names are assigned
RECURSIVE ClusterLoop(_, _, _, _, _)
ClusterLoop(loop, fs, rel, lo, hi) ==
    IF lo > hi THEN loop
    ELSE IF lo = hi THEN ClusterStep(loop, fs[lo], rel)
    ELSE LET mid  == (lo + hi) \div 2
             left == ClusterLoop(loop, fs, rel, lo, mid)
         IN  IF \A i \in (mid + 1)..hi : fs[i].name \in left.assigned
             THEN left
             ELSE ClusterLoop(left, fs, rel, mid + 1, hi)

\* [f['name'] for f in functions if f['name'] not in assigned]
Unassigned(fs, assigned) ==
    LET NotAssigned(name) == name \notin assigned
    IN  SelectSeq([i \in DOMAIN fs |-> fs[i].name], NotAssigned)

_cluster_functions(functions, rel) ==
    LET loop       == ClusterLoop([clusters |-> <<>>, assigned |-> {}],
                                  functions, rel, 1, Len(functions))
        unassigned == Unassigned(functions, loop.assigned)
    IN  IF unassigned = <<>> THEN loop.clusters
        ELSE IF loop.clusters # <<>>
             THEN [loop.clusters EXCEPT ![1] = @ \o unassigned]
             ELSE <<unassigned>>

(***************************************************************************)
(* _radon_analyze: helpers                                                 *)
(***************************************************************************)
\* func.get('complexity', 0)
GetComplexity(func) ==
    IF "complexity" \in DOMAIN func THEN func.complexity ELSE 0

\* the first block of cc_results with that name, else 0
_find_complexity_for_function(cc_results, func_name) ==
    LET found == {i \in DOMAIN cc_results : cc_results[i].name = func_name}
    IN  IF found = {} THEN 0
        ELSE cc_results[CHOOSE i \in found : \A j \in found : i <= j].complexity

_calculate_average_complexity(cc_results) ==
    IF cc_results = <<>> THEN [num |-> 0, den |-> 1]
    ELSE [num |-> SumSeq([i \in DOMAIN cc_results |-> cc_results[i].complexity]),
          den |-> Len(cc_results)]

\* func['complexity'] = ... on every function record
WithComplexity(functions, cc_results) ==
    [i \in DOMAIN functions |->
        ("complexity" :> _find_complexity_for_function(cc_results,
                                                       functions[i].name))
        @@ functions[i]]

(***************************************************************************)
(* _difflib_analyze                                                        *)
(***************************************************************************)
Similarity(func1, func2) ==
    SequenceMatcherRatio(_normalize_code(func1.source),
                         _normalize_code(func2.source))

DuplicateEntry(func1, func2, similarity) ==
    [func1 |-> func1.name, func2 |-> func2.name,
     similarity |-> similarity,
     source1 |-> func1.source, source2 |-> func2.source,
     line1 |-> func1.lineno, line2 |-> func2.lineno,
     complexity1 |-> GetComplexity(func1),
     complexity2 |-> GetComplexity(func2)]

\* the items the double loop stores, in its order: one for each pair
\* (i, j), i < j, whose similarity is above the threshold
StoredItems(fs) ==
    Flatten([i \in DOMAIN fs |->
        Flatten([j \in DOMAIN fs |->
            IF j > i
            THEN LET similarity == Similarity(fs[i], fs[j])
                 IN  IF FracGtPct(similarity, DuplicateThresholdPct)
                     THEN <<[key   |-> <<fs[i].name, fs[j].name>>,
                             value |-> DuplicateEntry(fs[i], fs[j],
                                                      similarity)]>>
                     ELSE <<>>
            ELSE <<>>])])

\* d[key] = value for each of the items in turn: a key keeps the place of
\* its first assignment and holds the value of its last
PutItems(dmap, items) ==
    LET all      == dmap \o items
        IsFirst(k) == \A m \in 1..(k - 1) : all[m].key # all[k].key
        Last(k)  == CHOOSE m \in DOMAIN all :
                        /\ all[m].key = all[k].key
                        /\ \A o \in (m + 1)..Len(all) : all[o].key # all[k].key
        firsts   == SelectSeq([k \in DOMAIN all |-> k], IsFirst)
    IN  [n \in DOMAIN firsts |->
            [key |-> all[firsts[n]].key, value |-> all[Last(firsts[n])].value]]

_difflib_analyze(dmap, functions) == PutItems(dmap, StoredItems(functions))

\* list(self.duplication_map.values())
Values(items) == [i \in DOMAIN items |-> items[i].value]

(***************************************************************************)
(* _identify_modularity_issues                                             *)
(***************************************************************************)
SeverityOrder(severity) ==
    CASE severity = "critical" -> 0
      [] severity = "high"     -> 1
      [] severity = "medium"   -> 2
      [] severity = "low"      -> 3
      [] OTHER                 -> 4

\* WithSeverity in the reverse order: the sort of a sort that is not stable
WithSeverityReversed(found, order) ==
    LET kept == SelectSeq(found, LAMBDA x : SeverityOrder(x.severity) = order)
    IN  [i \in DOMAIN kept |-> kept[Len(kept) + 1 - i]]

\* the issues of one sort key, in the order of the list
WithSeverity(found, order) ==
    SelectSeq(found, LAMBDA x : SeverityOrder(x.severity) = order)

\* list.sort(key=...): ascending in the key and stable, so the issues of
\* key 1, then of key 2, 3, 4, each group in the order it had
SortBySeverity(found) ==
    Flatten([order \in 1..4 |-> WithSeverity(found, order)])

IsComplex(f) == GetComplexity(f) > ComplexThreshold

IsHighSimilarity(d) == FracGtPct(d.similarity, HighSimilarityPct)

\* len(rel.get(name, {}).get('called_by', [])) == 0
HasNoCaller(rel, name) ==
    IF name \in DOMAIN rel THEN Len(rel[name].called_by) = 0 ELSE TRUE

IsOrphan(f, rel) ==
    /\ ~f.is_private
    /\ HasNoCaller(rel, f.name)
    /\ f.name \notin {"main", "__init__"}
    /\ ~ContainsTest(f.name)

\* IsGod with >= for >
IsGodAtThreshold(f) == LineCount(f.source) >= GodFunctionLines

IsGod(f) == LineCount(f.source) > GodFunctionLines

\* LargeFileIssue with >= for >
LargeFileIssueAtThreshold(scores) ==
    IF scores.size >= LargeFileSloc
    THEN <<[type |-> "large_file", severity |-> "high", metrics |-> scores]>>
    ELSE <<>>

LargeFileIssue(scores) ==
    IF scores.size > LargeFileSloc
    THEN <<[type |-> "large_file", severity |-> "high", metrics |-> scores]>>
    ELSE <<>>

TooManyFunctionsIssue(scores) ==
    IF scores.function_count > TooManyFunctions
    THEN <<[type |-> "too_many_functions", severity |-> "medium",
            count |-> scores.function_count]>>
    ELSE <<>>

ComplexFunctionsIssue(functions) ==
    LET complex_functions == SelectSeq(functions, IsComplex)
    IN  IF complex_functions # <<>>
        THEN <<[type |-> "complex_functions", severity |-> "high",
                functions |-> [i \in DOMAIN complex_functions |->
                    [name |-> complex_functions[i].name,
                     complexity |-> complex_functions[i].complexity,
                     line |-> complex_functions[i].lineno]]]>>
        ELSE <<>>

\* InternalDuplicationIssue with >= for > in the severity
InternalDuplicationIssueAtThreshold(dmap) ==
    LET high_similarity == SelectSeq(Values(dmap), IsHighSimilarity)
    IN  IF dmap # <<>> /\ high_similarity # <<>>
        THEN <<[type |-> "internal_duplication",
                severity |-> IF Len(high_similarity) >= HighSimilarityPairs
                             THEN "high" ELSE "medium",
                duplicates |-> Values(dmap),
                count |-> Len(dmap)]>>
        ELSE <<>>

InternalDuplicationIssue(dmap) ==
    LET high_similarity == SelectSeq(Values(dmap), IsHighSimilarity)
    IN  IF dmap # <<>> /\ high_similarity # <<>>
        THEN <<[type |-> "internal_duplication",
                severity |-> IF Len(high_similarity) > HighSimilarityPairs
                             THEN "high" ELSE "medium",
                duplicates |-> Values(dmap),
                count |-> Len(dmap)]>>
        ELSE <<>>

\* OrphanFunctionsIssue that appends inside the loop: an issue for each
\* orphan function
OrphanFunctionsIssuePerFunction(functions, rel) ==
    LET IsOrphanHere(f)  == IsOrphan(f, rel)
        orphan_functions == SelectSeq(functions, IsOrphanHere)
    IN  IF Len(orphan_functions) > OrphanThreshold
        THEN [i \in DOMAIN orphan_functions |->
                [type |-> "orphan_functions", severity |-> "low",
                 functions |-> <<orphan_functions[i].name>>,
                 count |-> 1]]
        ELSE <<>>

OrphanFunctionsIssue(functions, rel) ==
    LET IsOrphanHere(f)  == IsOrphan(f, rel)
        orphan_functions == SelectSeq(functions, IsOrphanHere)
    IN  IF Len(orphan_functions) > OrphanThreshold
        THEN <<[type |-> "orphan_functions", severity |-> "low",
                functions |-> [i \in DOMAIN orphan_functions |->
                                    orphan_functions[i].name],
                count |-> Len(orphan_functions)]>>
        ELSE <<>>

GodFunctionsIssue(functions) ==
    LET god_functions == SelectSeq(functions, IsGod)
    IN  IF god_functions # <<>>
        THEN <<[type |-> "god_functions", severity |-> "medium",
                functions |-> [i \in DOMAIN god_functions |->
                    [name |-> god_functions[i].name,
                     lines |-> LineCount(god_functions[i].source),
                     line |-> god_functions[i].lineno]]]>>
        ELSE <<>>

LowMaintainabilityIssue(scores) ==
    IF scores.maintainability < MaintainabilityThreshold
    THEN <<[type |-> "low_maintainability", severity |-> "high",
            score |-> scores.maintainability]>>
    ELSE <<>>

MixedResponsibilitiesIssue(functions, rel, scores) ==
    LET cohesion == _calculate_file_cohesion(functions, rel)
    IN  IF /\ FracLtPct(cohesion, CohesionThresholdPct)
           /\ scores.function_count > MixedFunctionCount
        THEN <<[type |-> "mixed_responsibilities", severity |-> "medium",
                cohesion |-> cohesion]>>
        ELSE <<>>

ProceduralStyleIssue(scores) ==
    IF /\ scores.class_count = 0
       /\ scores.function_count > ProceduralFunctionCount
    THEN <<[type |-> "procedural_style", severity |-> "low",
            function_count |-> scores.function_count]>>
    ELSE <<>>

\* the issues in the order the rules append them
DetectedIssues(functions, rel, dmap, scores) ==
    LargeFileIssue(scores)
    \o TooManyFunctionsIssue(scores)
    \o ComplexFunctionsIssue(functions)
    \o InternalDuplicationIssue(dmap)
    \o OrphanFunctionsIssue(functions, rel)
    \o GodFunctionsIssue(functions)
    \o LowMaintainabilityIssue(scores)
    \o MixedResponsibilitiesIssue(functions, rel, scores)
    \o ProceduralStyleIssue(scores)

\* the returned list; defined when complexity_scores has its keys
_identify_modularity_issues(functions, rel, dmap, scores) ==
    SortBySeverity(DetectedIssues(functions, rel, dmap, scores))

(***************************************************************************)
(* _generate_refactoring_plan and the nine builders.  Of a suggestion the  *)
(* model keeps the action, the issue, the steps and the estimated impact;  *)
(* a description text is left out, and a module name "module_<i>.py" is    *)
(* its number i.                                                           *)
(***************************************************************************)
_handle_internal_duplication(issue) ==
    LET duplicates == issue.duplicates
    IN  [action |-> "extract_common_function",
         issue  |-> issue,
         steps  |-> <<[type |-> "identify_common_code",
                       duplicate_pairs |-> [i \in DOMAIN duplicates |->
                            <<duplicates[i].func1, duplicates[i].func2>>]],
                      [type |-> "refactor_duplicates",
                       count |-> Len(duplicates)]>>,
         estimated_impact |->
            [lines_saved |-> SumSeq([i \in DOMAIN duplicates |->
                                LineCount(duplicates[i].source1)]) \div 2,
             duplicate_count |-> Len(duplicates)]]

_handle_large_file(issue, functions, rel) ==
    LET clusters == _cluster_functions(functions, rel)
    IN  [action |-> "split_file",
         issue  |-> issue,
         steps  |-> [i \in DOMAIN clusters |->
                        [type |-> "create_module", name |-> i,
                         functions |-> clusters[i]]],
         estimated_impact |->
            [new_files |-> Len(clusters),
             current_size |-> issue.metrics.size,
             estimated_new_sizes |-> [i \in DOMAIN clusters |->
                                        Len(clusters[i]) * 20]]]

_handle_complex_functions(issue) ==
    [action |-> "simplify_functions",
     issue  |-> issue,
     steps  |-> [i \in DOMAIN issue.functions |->
                    [type |-> "break_down_function",
                     function |-> issue.functions[i].name,
                     line |-> issue.functions[i].line,
                     complexity |-> issue.functions[i].complexity]],
     estimated_impact |-> [functions_affected |-> Len(issue.functions)]]

_handle_god_functions(issue) ==
    [action |-> "split_long_functions",
     issue  |-> issue,
     steps  |-> [i \in DOMAIN issue.functions |->
                    [type |-> "extract_methods",
                     function |-> issue.functions[i].name,
                     line |-> issue.functions[i].line,
                     lines |-> issue.functions[i].lines]],
     estimated_impact |->
        [functions_affected |-> Len(issue.functions),
         estimated_new_functions |-> Len(issue.functions) * 3]]

_handle_mixed_responsibilities(issue, functions, rel) ==
    LET clusters == _cluster_functions(functions, rel)
    IN  [action |-> "separate_concerns",
         issue  |-> issue,
         steps  |-> <<[type |-> "create_focused_module",
                       clusters |-> Len(clusters)]>>,
         estimated_impact |-> [suggested_modules |-> Len(clusters)]]

_handle_too_many_functions(issue) ==
    [action |-> "organize_functions",
     issue  |-> issue,
     steps  |-> <<[type |-> "group_into_classes",
                   function_count |-> issue.count]>>,
     estimated_impact |-> [current_functions |-> issue.count,
                           estimated_classes |-> issue.count \div 5]]

_handle_procedural_style(issue) ==
    [action |-> "introduce_classes",
     issue  |-> issue,
     steps  |-> <<[type |-> "convert_to_oop",
                   function_count |-> issue.function_count]>>,
     estimated_impact |-> [style_improvement |-> "encapsulation"]]

_handle_low_maintainability(issue) ==
    [action |-> "improve_maintainability",
     issue  |-> issue,
     steps  |-> <<[type |-> "reduce_complexity"],
                  [type |-> "add_documentation"],
                  [type |-> "improve_naming"]>>,
     estimated_impact |-> [current_score |-> issue.score,
                           target_score |-> 75]]

_handle_orphan_functions(issue) ==
    [action |-> "review_unused_code",
     issue  |-> issue,
     steps  |-> <<[type |-> "verify_usage",
                   functions |-> SubSeq(issue.functions, 1,
                                        Min(5, Len(issue.functions)))],
                  [type |-> "consider_removal"]>>,
     estimated_impact |-> [functions_to_review |-> issue.count]]

\* SuggestionsFor with one branch of the chain missing: a procedural_style
\* issue adds nothing
SuggestionsForWithoutProcedural(issue, functions, rel) ==
    CASE issue.type = "internal_duplication" ->
            <<_handle_internal_duplication(issue)>>
      [] issue.type = "large_file" ->
            <<_handle_large_file(issue, functions, rel)>>
      [] issue.type = "complex_functions" ->
            <<_handle_complex_functions(issue)>>
      [] issue.type = "god_functions" ->
            <<_handle_god_functions(issue)>>
      [] issue.type = "mixed_responsibilities" ->
            <<_handle_mixed_responsibilities(issue, functions, rel)>>
      [] issue.type = "too_many_functions" ->
            <<_handle_too_many_functions(issue)>>
      [] issue.type = "low_maintainability" ->
            <<_handle_low_maintainability(issue)>>
      [] issue.type = "orphan_functions" ->
            <<_handle_orphan_functions(issue)>>
      [] OTHER -> <<>>

\* the if / elif chain on issue['type']: an unknown type adds nothing
SuggestionsFor(issue, functions, rel) ==
    CASE issue.type = "internal_duplication" ->
            <<_handle_internal_duplication(issue)>>
      [] issue.type = "large_file" ->
            <<_handle_large_file(issue, functions, rel)>>
      [] issue.type = "complex_functions" ->
            <<_handle_complex_functions(issue)>>
      [] issue.type = "god_functions" ->
            <<_handle_god_functions(issue)>>
      [] issue.type = "mixed_responsibilities" ->
            <<_handle_mixed_responsibilities(issue, functions, rel)>>
      [] issue.type = "too_many_functions" ->
            <<_handle_too_many_functions(issue)>>
      [] issue.type = "procedural_style" ->
            <<_handle_procedural_style(issue)>>
      [] issue.type = "low_maintainability" ->
            <<_handle_low_maintainability(issue)>>
      [] issue.type = "orphan_functions" ->
            <<_handle_orphan_functions(issue)>>
      [] OTHER -> <<>>

_generate_refactoring_plan(found, functions, rel) ==
    Flatten([i \in DOMAIN found |-> SuggestionsFor(found[i], functions, rel)])

(***************************************************************************)
(* The input.  A file is what the environment answers for its text:        *)
(*   syntax_ok    whether ast.parse accepts it,                            *)
(*   defs         its function definitions in ast.walk order, each with    *)
(*                the name, the call names, the source segment and the     *)
(*                complexity radon measures for it (cc),                   *)
(*   class_count  the number of its class definitions,                     *)
(*   radon        whether the radon calls succeed, and the SLOC and the    *)
(*                maintainability index they measure.                      *)
(***************************************************************************)
SrcXYZ == << <<"x">>, <<" ", "y">>, <<" ", "z">> >>
SrcXYW == << <<"x">>, <<" ", "y">>, <<" ", "w", " ">> >>
SrcUV  == << <<"u">>, <<" ", "v">> >>

\* n lines: the code lines of SrcXYZ around blank and comment lines
LongSource(n) ==
    << <<"x">> >>
    \o [i \in 1..(n - 3) |-> IF i % 2 = 0 THEN <<" ", "#", "c">> ELSE <<" ">>]
    \o << <<" ", "y">>, <<" ", "z">> >>

SeqsUpTo(S, n) == UNION {[1..k -> S] : k \in 0..n}

\* a function with no call, by source and measured complexity; the same
\* function under the names the orphan rule treats apart; a function that
\* calls itself, and one that calls the first filler
RulePool ==
    {[name |-> "a", calls |-> <<>>, source |-> sc[1], cc |-> sc[2]] :
        sc \in {<<SrcXYZ, ComplexThreshold>>,
                <<SrcXYZ, ComplexThreshold + 1>>,
                <<SrcXYW, ComplexThreshold>>,
                <<SrcUV, ComplexThreshold>>,
                <<LongSource(GodFunctionLines), ComplexThreshold>>,
                <<LongSource(GodFunctionLines + 1), ComplexThreshold + 1>>}}
    \cup [name : {"_p", "main", "test_t"}, calls : {<<>>},
          source : {SrcXYZ}, cc : {ComplexThreshold}]
    \cup [name : {"a"}, calls : {<<"a">>, <<"g01">>},
          source : {SrcXYZ}, cc : {ComplexThreshold}]

\* n more functions of one kind:
\*   plain  public, no call, bodies unlike each other
\*   clone  public, the same two calls, the same body
\*   chain  public, each calls the next and the last the first
Fillers(kind, n) ==
    [i \in 1..n |->
        [name   |-> FillerNames[i],
         calls  |-> CASE kind = "plain" -> <<>>
                      [] kind = "clone" -> <<"p", "q">>
                      [] kind = "chain" -> <<FillerNames[(i % n) + 1]>>,
         source |-> IF kind = "clone" THEN SrcXYZ
                    ELSE << <<FillerNames[i]>> >>,
         cc     |-> 1]]

FillerConfigs ==
    ({"plain"} \X {0, 5, 10, 15, 20, 25})
    \cup ({"clone"} \X {1, 3, 11})
    \cup ({"chain"} \X {6, 20})

RadonFails == [ok |-> FALSE, sloc |-> 0, mi |-> 0]

RadonAnswers(slocs, mis) ==
    {RadonFails} \cup [ok : {TRUE}, sloc : slocs, mi : mis]

SyntaxErrorFile ==
    [syntax_ok |-> FALSE, defs |-> <<>>, class_count |-> 0,
     radon |-> RadonFails]

\* the rule family: a few chosen functions and a block of fillers
RuleFiles ==
    {SyntaxErrorFile}
    \cup {[syntax_ok |-> TRUE,
           defs |-> core \o Fillers(cfg[1], cfg[2]),
           class_count |-> c,
           radon |-> r] :
            core \in SeqsUpTo(RulePool, MaxCore),
            cfg \in FillerConfigs,
            c \in {0, 1},
            r \in RadonAnswers({LargeFileSloc, LargeFileSloc + 1},
                               {MaintainabilityThreshold - 1,
                                MaintainabilityThreshold})}

\* the graph family: every list of up to MaxFuncs functions over three
\* names (a name may repeat) and four call lists
GraphCalls ==
    {<<"p", "q">>, <<"p", "q", "r", "s">>, <<"q", "r", "s">>,
     <<"a", "b", "b">>}

GraphSource(calls) ==
    CASE calls = <<"p", "q">> -> SrcXYZ
      [] calls = <<"p", "q", "r", "s">> -> SrcXYW
      [] calls = <<"q", "r", "s">> -> SrcUV
      [] OTHER -> SrcXYZ

GraphPool ==
    {[name |-> n, calls |-> k, source |-> GraphSource(k),
      cc |-> ComplexThreshold] : n \in {"a", "b", "c"}, k \in GraphCalls}

GraphFiles ==
    {SyntaxErrorFile}
    \cup {[syntax_ok |-> TRUE, defs |-> fs, class_count |-> 0, radon |-> r] :
            fs \in SeqsUpTo(GraphPool, MaxFuncs),
            r \in RadonAnswers({LargeFileSloc + 1},
                               {MaintainabilityThreshold})}

(***************************************************************************)
(* What the external calls return for a file.                              *)
(***************************************************************************)
\* the function_info records of _extract_ast_info (name, lineno, calls,
\* is_private, source; the line of the i-th definition is i)
ExtractFunctions(f) ==
    [i \in DOMAIN f.defs |->
        [name       |-> f.defs[i].name,
         lineno     |-> i,
         calls      |-> f.defs[i].calls,
         is_private |-> StartsWithUnderscore(f.defs[i].name),
         source     |-> f.defs[i].source]]

\* the class_info records, by name
ExtractClasses(f) == [i \in 1..f.class_count |-> [name |-> "K"]]

\* cc_visit(source): one block for each function definition
CcVisit(f) ==
    [i \in DOMAIN f.defs |->
        [name |-> f.defs[i].name, complexity |-> f.defs[i].cc]]

(***************************************************************************)
(* The state after __init__.                                               *)
(***************************************************************************)
Constructed ==
    /\ pc = "analyze_file"
    /\ module_data = [ast_tree |-> "None", functions |-> <<>>,
                      classes |-> <<>>, metrics |-> EmptyDict,
                      source |-> ""]
    /\ function_relationships = EmptyDict
    /\ duplication_map = <<>>
    /\ complexity_scores = EmptyDict
    /\ issues = <<>>
    /\ suggestions = <<>>
    /\ raised = "none"

\* no analyze_file call before, and no request
NoRequest ==
    /\ completed_runs = <<>>
    /\ code = <<>>
    /\ handler_pc = "idle"
    /\ tmp_file = "absent"
    /\ response = [status_code |-> 0, detail |-> "", summary |-> EmptyDict]

Init == file \in RuleFiles /\ Constructed /\ NoRequest

InitGraph == file \in GraphFiles /\ Constructed /\ NoRequest

(***************************************************************************)
(* The steps of analyze_file.                                              *)
(***************************************************************************)
\* with open(...) as f: self.module_data['source'] = f.read()
ReadSource ==
    /\ pc = "analyze_file"
    /\ module_data' = [module_data EXCEPT !.source = "text"]
    /\ pc' = "_ast_analyze"
    /\ UNCHANGED <<completed_runs, handler_vars>>
    /\ UNCHANGED <<file, function_relationships, duplication_map,
                   complexity_scores, issues, suggestions, raised>>

\* AstAnalyzeRaises without the raise: the error is printed and the run goes on
AstAnalyzeSwallows ==
    /\ pc = "_ast_analyze"
    /\ ~file.syntax_ok
    /\ pc' = "_radon_analyze"
    /\ UNCHANGED <<completed_runs, handler_vars>>
    /\ UNCHANGED <<file, module_data, function_relationships,
                   duplication_map, complexity_scores, issues, suggestions,
                   raised>>

\* _ast_analyze: ast.parse raises, the except clause re-raises
AstAnalyzeRaises ==
    /\ pc = "_ast_analyze"
    /\ ~file.syntax_ok
    /\ raised' = "SyntaxError"
    /\ pc' = "raised"
    /\ UNCHANGED <<completed_runs, handler_vars>>
    /\ UNCHANGED <<file, module_data, function_relationships,
                   duplication_map, complexity_scores, issues, suggestions>>

\* _ast_analyze: parse, _extract_ast_info, _build_function_relationships
AstAnalyze ==
    /\ pc = "_ast_analyze"
    /\ file.syntax_ok
    /\ LET functions == module_data.functions \o ExtractFunctions(file)
       IN  /\ module_data' =
                [module_data EXCEPT
                    !.ast_tree = "tree",
                    !.functions = functions,
                    !.classes = @ \o ExtractClasses(file)]
           /\ function_relationships' =
                _build_function_relationships(function_relationships,
                                              functions)
    /\ pc' = "_radon_analyze"
    /\ UNCHANGED <<completed_runs, handler_vars>>
    /\ UNCHANGED <<file, duplication_map, complexity_scores, issues,
                   suggestions, raised>>

\* _radon_analyze: a radon call raises; the except clause prints and returns
RadonAnalyzeFails ==
    /\ pc = "_radon_analyze"
    /\ ~file.radon.ok
    /\ pc' = "_difflib_analyze"
    /\ UNCHANGED <<completed_runs, handler_vars>>
    /\ UNCHANGED <<file, module_data, function_relationships,
                   duplication_map, complexity_scores, issues, suggestions,
                   raised>>

\* a variant of RadonAnalyze that hands over to issue detection directly
RadonAnalyzeSkipsDifflib ==
    /\ pc = "_radon_analyze"
    /\ file.radon.ok
    /\ pc' = "_identify_modularity_issues"
    /\ UNCHANGED <<completed_runs, handler_vars>>
    /\ UNCHANGED <<file, module_data, function_relationships,
                   duplication_map, complexity_scores, issues, suggestions,
                   raised>>

\* _radon_analyze: the three radon calls return
RadonAnalyze ==
    /\ pc = "_radon_analyze"
    /\ file.radon.ok
    /\ LET cc_results == CcVisit(file)
           functions  == WithComplexity(module_data.functions, cc_results)
       IN  /\ module_data' =
                [module_data EXCEPT
                    !.metrics = [complexity |-> cc_results,
                                 maintainability |-> file.radon.mi,
                                 sloc |-> file.radon.sloc],
                    !.functions = functions]
           /\ complexity_scores' =
                [average_complexity |->
                        _calculate_average_complexity(cc_results),
                 max_complexity |->
                        MaxSeq([i \in DOMAIN cc_results |->
                                    cc_results[i].complexity], 0),
                 maintainability |-> file.radon.mi,
                 size |-> file.radon.sloc,
                 function_count |-> Len(functions),
                 class_count |-> Len(module_data.classes)]
    /\ pc' = "_difflib_analyze"
    /\ UNCHANGED <<completed_runs, handler_vars>>
    /\ UNCHANGED <<file, function_relationships, duplication_map, issues,
                   suggestions, raised>>

DifflibAnalyze ==
    /\ pc = "_difflib_analyze"
    /\ duplication_map' = _difflib_analyze(duplication_map,
                                           module_data.functions)
    /\ pc' = "_identify_modularity_issues"
    /\ UNCHANGED <<completed_runs, handler_vars>>
    /\ UNCHANGED <<file, module_data, function_relationships,
                   complexity_scores, issues, suggestions, raised>>

\* _identify_modularity_issues: self.complexity_scores['size'] on a dict
\* without that key
IdentifyIssuesRaises ==
    /\ pc = "_identify_modularity_issues"
    /\ "size" \notin DOMAIN complexity_scores
    /\ raised' = "KeyError"
    /\ pc' = "raised"
    /\ UNCHANGED <<completed_runs, handler_vars>>
    /\ UNCHANGED <<file, module_data, function_relationships,
                   duplication_map, complexity_scores, issues, suggestions>>

IdentifyIssues ==
    /\ pc = "_identify_modularity_issues"
    /\ "size" \in DOMAIN complexity_scores
    /\ issues' = _identify_modularity_issues(module_data.functions,
                                             function_relationships,
                                             duplication_map,
                                             complexity_scores)
    /\ pc' = "_generate_refactoring_plan"
    /\ UNCHANGED <<completed_runs, handler_vars>>
    /\ UNCHANGED <<file, module_data, function_relationships,
                   duplication_map, complexity_scores, suggestions, raised>>

GeneratePlan ==
    /\ pc = "_generate_refactoring_plan"
    /\ suggestions' = _generate_refactoring_plan(issues,
                                                 module_data.functions,
                                                 function_relationships)
    /\ pc' = "returned"
    /\ UNCHANGED <<completed_runs, handler_vars>>
    /\ UNCHANGED <<file, module_data, function_relationships,
                   duplication_map, complexity_scores, issues, raised>>

Next ==
    \/ ReadSource
    \/ AstAnalyzeRaises
    \/ AstAnalyze
    \/ RadonAnalyzeFails
    \/ RadonAnalyze
    \/ DifflibAnalyze
    \/ IdentifyIssuesRaises
    \/ IdentifyIssues
    \/ GeneratePlan

Spec == Init /\ [][Next]_vars

SpecGraph == InitGraph /\ [][Next]_vars

(***************************************************************************)
(* analyze_file called again on the same analyzer object.                  *)
(***************************************************************************)
\* the functions of the small files: two names, the four call lists
SmallPool ==
    {[name |-> n, calls |-> k, source |-> GraphSource(k),
      cc |-> ComplexThreshold] : n \in {"a", "b"}, k \in GraphCalls}

SmallFiles ==
    {SyntaxErrorFile}
    \cup {[syntax_ok |-> TRUE, defs |-> fs, class_count |-> c, radon |-> r] :
            fs \in SeqsUpTo(SmallPool, MaxSmallFuncs),
            c \in {0, 1},
            r \in RadonAnswers({LargeFileSloc + 1},
                               {MaintainabilityThreshold})}

InitRerun == file \in SmallFiles /\ Constructed /\ NoRequest

\* analyze_file returned and the caller calls it again on the same object:
\* the attributes set by __init__ keep what the earlier call left in them,
\* the locals issues and suggestions belong to the new call
AnalyzeFileAgain ==
    /\ pc = "returned"
    /\ handler_pc = "idle"
    /\ Len(completed_runs) < MaxReruns
    /\ completed_runs' =
            Append(completed_runs,
                   [function_count |-> Len(module_data.functions),
                    class_count |-> Len(module_data.classes),
                    function_relationships |-> function_relationships,
                    duplication_map |-> duplication_map,
                    issues |-> issues])
    /\ issues' = <<>>
    /\ suggestions' = <<>>
    /\ pc' = "analyze_file"
    /\ UNCHANGED handler_vars
    /\ UNCHANGED <<file, module_data, function_relationships,
                   duplication_map, complexity_scores, raised>>

NextRerun ==
    \/ Next
    \/ AnalyzeFileAgain

SpecRerun == InitRerun /\ [][NextRerun]_vars

(***************************************************************************)
(* The request handler analyze of back/main.py.                            *)
(***************************************************************************)
\* a text is a sequence of characters; "x" stands for a character of the
\* program, whose parse and metrics the record file describes
Whitespace == {" ", "\n", "\t"}

\* a variant of code_str that leaves the text as it is
CodeStrUnstripped(s) == s

\* (code or "").strip(): the text without its leading and trailing
\* whitespace
code_str(s) ==
    LET idx == {i \in DOMAIN s : s[i] \notin Whitespace}
    IN  IF idx = {} THEN <<>>
        ELSE SubSeq(s,
                    CHOOSE i \in idx : \A j \in idx : i <= j,
                    CHOOSE i \in idx : \A j \in idx : j <= i)

\* dict.get(key, default)
Get(dict, key, default) ==
    IF key \in DOMAIN dict THEN dict[key] ELSE default

\* str(e) of the exceptions analyze_file lets out
StrOfException(e) ==
    CASE e = "SyntaxError" -> "invalid syntax"
      [] e = "KeyError"    -> "'size'"
      [] OTHER             -> e

NoResponse == [status_code |-> 0, detail |-> "", summary |-> EmptyDict]

HTTPException(status_code, detail) ==
    [status_code |-> status_code, detail |-> detail, summary |-> EmptyDict]

\* the texts submitted: empty, blank, and programs with and without blanks
\* around them
CodeTexts ==
    {<<>>, <<" ">>, <<"\n", " ", "\t">>,
     <<"x">>, <<" ", "x", "\n">>, <<"x", " ", "x">>}

\* what an empty file parses into
BlankFile ==
    [syntax_ok |-> TRUE, defs |-> <<>>, class_count |-> 0,
     radon |-> [ok |-> TRUE, sloc |-> 0, mi |-> 100]]

\* a request arrives; no analyzer object exists
InitRequest ==
    /\ code \in CodeTexts
    /\ file \in (IF code_str(code) = <<>> THEN {BlankFile} ELSE SmallFiles)
    /\ pc = "unconstructed"
    /\ module_data = EmptyDict
    /\ function_relationships = EmptyDict
    /\ duplication_map = <<>>
    /\ complexity_scores = EmptyDict
    /\ issues = <<>>
    /\ suggestions = <<>>
    /\ raised = "none"
    /\ completed_runs = <<>>
    /\ handler_pc = "analyze"
    /\ tmp_file = "absent"
    /\ response = NoResponse

\* lines 25-27: nothing is left of the text after strip()
HandlerRejectsEmpty ==
    /\ handler_pc = "analyze"
    /\ code_str(code) = <<>>
    /\ response' = HTTPException(400, "Empty code submitted.")
    /\ handler_pc' = "done"
    /\ UNCHANGED <<code, tmp_file, completed_runs>>
    /\ UNCHANGED <<file, pc, module_data, function_relationships,
                   duplication_map, complexity_scores, issues, suggestions,
                   raised>>

\* lines 29-35: the stripped text is written to a temporary file that is
\* kept on close, and tmp_path is set
HandlerStagesFile ==
    /\ handler_pc = "analyze"
    /\ code_str(code) # <<>>
    /\ tmp_file' = "present"
    /\ handler_pc' = "staged"
    /\ UNCHANGED <<code, response, completed_runs>>
    /\ UNCHANGED <<file, pc, module_data, function_relationships,
                   duplication_map, complexity_scores, issues, suggestions,
                   raised>>

\* line 37: SingleFileModularityAnalyzer(tmp_path); the file exists and its
\* suffix is .py
HandlerConstructs ==
    /\ handler_pc = "staged"
    /\ pc = "unconstructed"
    /\ pc' = "analyze_file"
    /\ module_data' = [ast_tree |-> "None", functions |-> <<>>,
                       classes |-> <<>>, metrics |-> EmptyDict,
                       source |-> ""]
    /\ function_relationships' = EmptyDict
    /\ duplication_map' = <<>>
    /\ complexity_scores' = EmptyDict
    /\ handler_pc' = "analyze_file"
    /\ UNCHANGED <<code, tmp_file, response, completed_runs>>
    /\ UNCHANGED <<file, issues, suggestions, raised>>

\* lines 38-63: analyze_file returned; the summary is built and returned
HandlerReturnsSummary ==
    /\ handler_pc = "analyze_file"
    /\ pc = "returned"
    /\ response' =
        [status_code |-> 200,
         detail |-> "",
         summary |->
            [total_functions |-> Get(complexity_scores, "function_count", 0),
             total_classes |-> Get(complexity_scores, "class_count", 0),
             average_complexity |->
                    Get(complexity_scores, "average_complexity", 0),
             max_complexity |-> Get(complexity_scores, "max_complexity", 0),
             maintainability |-> Get(complexity_scores, "maintainability", 0),
             sloc |-> Get(complexity_scores, "size", 0),
             cohesion |-> _calculate_file_cohesion(module_data.functions,
                                                   function_relationships),
             results |-> suggestions]]
    /\ handler_pc' = "finally"
    /\ UNCHANGED <<code, tmp_file, completed_runs>>
    /\ UNCHANGED <<file, pc, module_data, function_relationships,
                   duplication_map, complexity_scores, issues, suggestions,
                   raised>>

\* lines 65-66: an exception left analyze_file
HandlerTranslatesError ==
    /\ handler_pc = "analyze_file"
    /\ pc = "raised"
    /\ response' = HTTPException(500, StrOfException(raised))
    /\ handler_pc' = "finally"
    /\ UNCHANGED <<code, tmp_file, completed_runs>>
    /\ UNCHANGED <<file, pc, module_data, function_relationships,
                   duplication_map, complexity_scores, issues, suggestions,
                   raised>>

\* a variant of HandlerFinally whose unlink runs only before a returned
\* summary
HandlerUnlinksOnSuccess ==
    /\ handler_pc = "finally"
    /\ tmp_file' = IF tmp_file = "present" /\ response.status_code = 200
                   THEN "removed" ELSE tmp_file
    /\ handler_pc' = "done"
    /\ UNCHANGED <<code, response, completed_runs>>
    /\ UNCHANGED <<file, pc, module_data, function_relationships,
                   duplication_map, complexity_scores, issues, suggestions,
                   raised>>

\* lines 68-70: the finally clause, on the way out of the try statement
HandlerFinally ==
    /\ handler_pc = "finally"
    /\ tmp_file' = IF tmp_file = "present" THEN "removed" ELSE tmp_file
    /\ handler_pc' = "done"
    /\ UNCHANGED <<code, response, completed_runs>>
    /\ UNCHANGED <<file, pc, module_data, function_relationships,
                   duplication_map, complexity_scores, issues, suggestions,
                   raised>>

NextRequest ==
    \/ HandlerRejectsEmpty
    \/ HandlerStagesFile
    \/ HandlerConstructs
    \/ Next
    \/ HandlerReturnsSummary
    \/ HandlerTranslatesError
    \/ HandlerFinally

SpecRequest == InitRequest /\ [][NextRequest]_vars

(***************************************************************************)
(* Properties.                                                             *)
(***************************************************************************)
\* _identify_modularity_issues has returned its list
IssuesReturned == pc \in {"_generate_refactoring_plan", "returned"}

\* _ast_analyze has returned
AstDone == pc \notin {"analyze_file", "_ast_analyze", "raised"}

HasIssue(type) == \E k \in DOMAIN issues : issues[k].type = type

IssueOf(type) == issues[CHOOSE k \in DOMAIN issues : issues[k].type = type]

FunctionNames == {module_data.functions[i].name : i \in DOMAIN module_data.functions}

NoRepeat(seq) == \A i, j \in DOMAIN seq : i # j => seq[i] # seq[j]

\* the recorded pairs whose ratio is above 0.85
HighPairs ==
    {k \in DOMAIN duplication_map :
        duplication_map[k].value.similarity.num * 100
            > 85 * duplication_map[k].value.similarity.den}

\* C1: when the metrics measurement fails, analyze_file still completes
\* without raising.
C1_MetricsFailureDoesNotRaise ==
    (file.syntax_ok /\ ~file.radon.ok) => raised = "none"

\* C2: a syntax error is fatal: analyze_file raises at the structural
\* stage, no later stage runs, and the run has no metrics, no duplicate
\* pairs, no issues and no suggestions.
C2_SyntaxErrorIsFatal ==
    ~file.syntax_ok =>
        /\ pc \in {"analyze_file", "_ast_analyze", "raised"}
        /\ pc = "raised" => raised = "SyntaxError"
        /\ module_data.metrics = EmptyDict
        /\ complexity_scores = EmptyDict
        /\ function_relationships = EmptyDict
        /\ duplication_map = <<>>
        /\ issues = <<>>
        /\ suggestions = <<>>

C2_Witness == ~file.syntax_ok /\ pc = "raised" /\ raised = "SyntaxError"

\* C3: the clusters of _cluster_functions partition the set of function
\* names, also when function records share a name: every name is in one
\* cluster, once.  It holds of the clusters of the state's functions and
\* relationships, and of the clusters a split_file suggestion carries.
IsPartitionOfNames(clusters) ==
    /\ NoRepeat(Flatten(clusters))
    /\ Range(Flatten(clusters)) = FunctionNames

C3_ClustersPartitionNames ==
    /\ IsPartitionOfNames(_cluster_functions(module_data.functions,
                                             function_relationships))
    /\ \A k \in DOMAIN suggestions :
            suggestions[k].action = "split_file" =>
                IsPartitionOfNames([i \in DOMAIN suggestions[k].steps |->
                                        suggestions[k].steps[i].functions])

\* a returned split_file suggestion for a file where two records share a
\* name and a cluster has pulled in a related function
C3_Witness ==
    /\ pc = "returned"
    /\ Len(module_data.functions) > Cardinality(FunctionNames)
    /\ \E k \in DOMAIN suggestions :
            /\ suggestions[k].action = "split_file"
            /\ \E i \in DOMAIN suggestions[k].steps :
                    Len(suggestions[k].steps[i].functions) >= 2

\* C4: internal_duplication is reported whenever a duplicate pair is
\* recorded (every recorded pair has a ratio above 0.70), and not when no
\* pair is recorded.
C4_DuplicationReportedIffRecorded ==
    IssuesReturned =>
        (HasIssue("internal_duplication") <=> duplication_map # <<>>)

\* C5: a reported internal_duplication is high exactly when more than 3
\* recorded pairs have a ratio above 0.85 and medium otherwise, and it
\* counts the recorded pairs; a single recorded pair of ratio 1.0 is
\* reported, medium, with count 1.
C5_DuplicationSeverity ==
    IssuesReturned =>
        /\ HasIssue("internal_duplication") =>
                /\ IssueOf("internal_duplication").severity =
                        (IF Cardinality(HighPairs) > 3
                         THEN "high" ELSE "medium")
                /\ IssueOf("internal_duplication").count =
                        Len(duplication_map)
        /\ (/\ Len(duplication_map) = 1
            /\ duplication_map[1].value.similarity.num =
                    duplication_map[1].value.similarity.den) =>
                /\ HasIssue("internal_duplication")
                /\ IssueOf("internal_duplication").severity = "medium"
                /\ IssueOf("internal_duplication").count = 1

\* one recorded pair, of ratio 1.0, reported
C5_Witness ==
    /\ IssuesReturned
    /\ Len(duplication_map) = 1
    /\ duplication_map[1].value.similarity.num =
            duplication_map[1].value.similarity.den
    /\ HasIssue("internal_duplication")

\* C6: in the returned issue list every high issue is before every medium
\* one and every medium one before every low one, and issues of one
\* severity are in the order the rules detect them.
DetectionOrder ==
    <<"large_file", "too_many_functions", "complex_functions",
      "internal_duplication", "orphan_functions", "god_functions",
      "low_maintainability", "mixed_responsibilities", "procedural_style">>

DetectionIndex(type) ==
    CHOOSE n \in DOMAIN DetectionOrder : DetectionOrder[n] = type

SeverityRank(severity) ==
    CASE severity = "high" -> 1 [] severity = "medium" -> 2
      [] severity = "low" -> 3

C6_SeverityOrderStable ==
    IssuesReturned =>
        \A i, j \in DOMAIN issues :
            i < j =>
                \/ SeverityRank(issues[i].severity)
                        < SeverityRank(issues[j].severity)
                \/ /\ issues[i].severity = issues[j].severity
                   /\ DetectionIndex(issues[i].type)
                        < DetectionIndex(issues[j].type)

\* all three severities, two high issues, and a medium issue that was
\* detected before a high one
C6_Witness ==
    /\ IssuesReturned
    /\ HasIssue("large_file") /\ HasIssue("low_maintainability")
    /\ HasIssue("too_many_functions") /\ HasIssue("complex_functions")
    /\ HasIssue("god_functions") /\ HasIssue("mixed_responsibilities")
    /\ HasIssue("orphan_functions") /\ HasIssue("procedural_style")

\* C7: _calculate_file_cohesion is exactly 1.0 for 0 or 1 functions and in
\* [0, 1] for every other function list and relationship graph.
C7_CohesionRange ==
    LET cohesion == _calculate_file_cohesion(module_data.functions,
                                             function_relationships)
    IN  /\ cohesion.den > 0
        /\ 0 <= cohesion.num /\ cohesion.num <= cohesion.den
        /\ Len(module_data.functions) < 2 => cohesion.num = cohesion.den

\* two or more functions, a caller that is twice in one called_by list,
\* and more counted relationships than pairs of functions
C7_Witness ==
    /\ AstDone
    /\ Len(module_data.functions) >= 2
    /\ \E name \in DOMAIN function_relationships :
            ~NoRepeat(function_relationships[name].called_by)
    /\ SumRelationships(function_relationships,
                        DOMAIN function_relationships)
        > Len(module_data.functions) * (Len(module_data.functions) - 1)

\* C8: after _build_function_relationships the related relation is
\* symmetric, and two names are related exactly when two function records
\* of these names have call-target sets that share at least 2 names.
ShareTwoCalls(A, B) ==
    \E i, j \in DOMAIN module_data.functions :
        /\ i # j
        /\ module_data.functions[i].name = A
        /\ module_data.functions[j].name = B
        /\ Cardinality(Range(module_data.functions[i].calls)
                       \cap Range(module_data.functions[j].calls)) >= 2

IsRelated(A, B) == B \in Range(function_relationships[A].related_functions)

C8_RelatedSymmetric ==
    \A A, B \in DOMAIN function_relationships :
        /\ IsRelated(A, B) <=> IsRelated(B, A)
        /\ IsRelated(A, B) <=> ShareTwoCalls(A, B)

\* two names that are related, and two functions that share exactly one
\* call target and are not
C8_Witness ==
    /\ AstDone
    /\ \E A, B \in DOMAIN function_relationships : A # B /\ IsRelated(A, B)
    /\ \E i, j \in DOMAIN module_data.functions :
            /\ Cardinality(Range(module_data.functions[i].calls)
                    \cap Range(module_data.functions[j].calls)) = 1
            /\ ~IsRelated(module_data.functions[i].name,
                          module_data.functions[j].name)

\* C9: every name in an entry's called_by list is the name of a function
\* of the file whose call list holds the entry's name, and a call target
\* that names no function of the file has no entry.
C9_CalledByResolvable ==
    /\ DOMAIN function_relationships = FunctionNames
    /\ \A name \in DOMAIN function_relationships :
        \A caller \in Range(function_relationships[name].called_by) :
            \E i \in DOMAIN module_data.functions :
                /\ module_data.functions[i].name = caller
                /\ name \in Range(module_data.functions[i].calls)

\* a function that calls a function of the file and a name that is none
C9_Witness ==
    /\ AstDone
    /\ \E name \in DOMAIN function_relationships :
            function_relationships[name].called_by # <<>>
    /\ \E i \in DOMAIN module_data.functions :
            Range(module_data.functions[i].calls) \ FunctionNames # {}

\* C10: large_file is reported if and only if the SLOC is above 500 (not
\* at 500, and at 501), with severity high.
C10_LargeFileThreshold ==
    IssuesReturned =>
        /\ HasIssue("large_file") <=> file.radon.sloc > 500
        /\ HasIssue("large_file") => IssueOf("large_file").severity = "high"

C10_Witness ==
    IssuesReturned /\ file.radon.sloc = 501 /\ HasIssue("large_file")

\* C11: for a file with 25 functions, no calls between them, no shared
\* call targets and 0 classes, the computed cohesion is 0 and the
\* mixed_responsibilities issue is not reported.
C11_UnrelatedFunctionsNotMixed ==
    (/\ IssuesReturned
     /\ Len(module_data.functions) = 25
     /\ \A i \in DOMAIN module_data.functions :
            module_data.functions[i].calls = <<>>
     /\ module_data.classes = <<>>) =>
        /\ _calculate_file_cohesion(module_data.functions,
                                    function_relationships).num = 0
        /\ ~HasIssue("mixed_responsibilities")

\* the function record of line i is in the payload of the issue of that type
InPayload(type, i) ==
    /\ HasIssue(type)
    /\ \E k \in DOMAIN IssueOf(type).functions :
            /\ IssueOf(type).functions[k].line = module_data.functions[i].lineno
            /\ IssueOf(type).functions[k].name = module_data.functions[i].name

\* C12: the complex_functions rule and the god_functions rule are
\* independent: a function is in the complex_functions payload exactly when
\* its complexity is above 10 and in the god_functions payload exactly when
\* its source has more than 50 lines; one of 51 lines and complexity 11 is
\* in both, one of 50 lines and complexity 10 in neither.
C12_ComplexAndGodIndependent ==
    IssuesReturned =>
        \A i \in DOMAIN module_data.functions :
            LET f == module_data.functions[i]
            IN  /\ InPayload("complex_functions", i) <=> f.complexity > 10
                /\ InPayload("god_functions", i) <=> Len(f.source) > 50
                /\ (Len(f.source) = 51 /\ f.complexity = 11) =>
                        /\ InPayload("complex_functions", i)
                        /\ InPayload("god_functions", i)
                /\ (Len(f.source) = 50 /\ f.complexity = 10) =>
                        /\ ~InPayload("complex_functions", i)
                        /\ ~InPayload("god_functions", i)

\* a function of 51 lines and complexity 11, in both payloads
C12_Witness ==
    /\ IssuesReturned
    /\ \E i \in DOMAIN module_data.functions :
            /\ Len(module_data.functions[i].source) = 51
            /\ module_data.functions[i].complexity = 11
            /\ InPayload("complex_functions", i)
            /\ InPayload("god_functions", i)

\* C13: each rule gives at most one issue in a run: in the returned issue
\* list the types are pairwise distinct, each is one of the nine kinds, and
\* no issue has the severity critical.
C13_OneIssuePerRule ==
    IssuesReturned =>
        /\ \A i, j \in DOMAIN issues :
                i # j => issues[i].type # issues[j].type
        /\ \A i \in DOMAIN issues :
                /\ issues[i].type \in Range(DetectionOrder)
                /\ issues[i].severity \in {"high", "medium", "low"}
                /\ issues[i].severity # "critical"

\* a returned list of eight issues
C13_Witness == IssuesReturned /\ Len(issues) = 8

\* the action tag of the builder of an issue type
BuilderAction(type) ==
    CASE type = "internal_duplication"   -> "extract_common_function"
      [] type = "large_file"             -> "split_file"
      [] type = "complex_functions"      -> "simplify_functions"
      [] type = "god_functions"          -> "split_long_functions"
      [] type = "mixed_responsibilities" -> "separate_concerns"
      [] type = "too_many_functions"     -> "organize_functions"
      [] type = "procedural_style"       -> "introduce_classes"
      [] type = "low_maintainability"    -> "improve_maintainability"
      [] type = "orphan_functions"       -> "review_unused_code"

\* C14: the suggestion list analyze_file returns matches the detected issue
\* list one to one and in order: the same length, the i-th suggestion
\* carries the i-th issue and is the one the builder of that issue's type
\* makes.
C14_SuggestionPerIssue ==
    pc = "returned" =>
        /\ Len(suggestions) = Len(issues)
        /\ \A i \in DOMAIN suggestions :
                /\ suggestions[i].issue = issues[i]
                /\ suggestions[i].action = BuilderAction(issues[i].type)

\* a returned list of eight suggestions, one of them for procedural_style
C14_Witness ==
    /\ pc = "returned"
    /\ Len(suggestions) = 8
    /\ \E i \in DOMAIN suggestions : suggestions[i].action = "introduce_classes"

\* _difflib_analyze has returned
DifflibDone ==
    \/ pc \in {"_identify_modularity_issues", "_generate_refactoring_plan",
               "returned"}
    \/ raised = "KeyError"

\* the pairs of distinct function records, each once, whose ratio is
\* above 0.70
SimilarPairs ==
    {p \in (DOMAIN module_data.functions) \X (DOMAIN module_data.functions) :
        /\ p[1] < p[2]
        /\ LET r == Similarity(module_data.functions[p[1]],
                               module_data.functions[p[2]])
           IN  r.num * 100 > 70 * r.den}

\* C17: after _difflib_analyze the recorded pairs match one to one the
\* pairs of distinct function records whose ratio is above 0.70: as many
\* entries as such pairs, every such pair with an entry of its own (its
\* names and its lines), and no entry with a ratio of 0.70 or less.
C17_RecordedPairsOneToOne ==
    DifflibDone =>
        /\ Len(duplication_map) = Cardinality(SimilarPairs)
        /\ \A p \in SimilarPairs :
                \E k \in DOMAIN duplication_map :
                    /\ duplication_map[k].value.line1 =
                            module_data.functions[p[1]].lineno
                    /\ duplication_map[k].value.line2 =
                            module_data.functions[p[2]].lineno
        /\ \A k \in DOMAIN duplication_map :
                duplication_map[k].value.similarity.num * 100
                    > 70 * duplication_map[k].value.similarity.den

Clusters == _cluster_functions(module_data.functions, function_relationships)

\* the names in the clusters before the k-th
AssignedBefore(k) == UNION {Range(Clusters[m]) : m \in 1..(k - 1)}

\* the first function, in the order of the file, that no cluster before
\* the k-th holds
FirstUnassigned(k) ==
    LET i == CHOOSE i \in DOMAIN module_data.functions :
                /\ module_data.functions[i].name \notin AssignedBefore(k)
                /\ \A j \in 1..(i - 1) :
                        module_data.functions[j].name \in AssignedBefore(k)
    IN  module_data.functions[i].name

\* C19: clustering expands one hop: walking the functions in their order,
\* each function not yet assigned seeds a new cluster, which receives the
\* seed and the members of the seed's own related list that are not yet
\* assigned, and nothing else; a function related to a pulled-in member but
\* not to the seed is not in that cluster.
C19_ClusterOneHop ==
    \A k \in DOMAIN Clusters :
        LET seed == Clusters[k][1]
        IN  /\ seed = FirstUnassigned(k)
            /\ Range(Clusters[k]) =
                    {seed} \cup (Range(function_relationships[seed].related_functions)
                                 \ AssignedBefore(k))
            /\ \A m \in Range(Clusters[k]) \ {seed} : IsRelated(seed, m)
            /\ \A f \in FunctionNames \ {seed} :
                    (/\ function_relationships[f].related_functions # <<>>
                     /\ Range(function_relationships[f].related_functions)
                            \subseteq Range(Clusters[k]) \ {seed}) =>
                        /\ f \notin Range(Clusters[k])
                        /\ \E n \in DOMAIN Clusters : n > k /\ Clusters[n][1] = f

\* a seed, a member it pulled in, and a function related to pulled-in
\* members only, which is the seed of a later cluster
C19_Witness ==
    /\ AstDone
    /\ \E k, n \in DOMAIN Clusters :
            /\ k < n
            /\ \E member \in Range(Clusters[k]) \ {Clusters[k][1]} :
                    /\ IsRelated(member, Clusters[n][1])
                    /\ ~IsRelated(Clusters[k][1], Clusters[n][1])
            /\ Range(function_relationships[Clusters[n][1]].related_functions)
                    \subseteq Range(Clusters[k]) \ {Clusters[k][1]}

\* ---------------------------------------------------------------------
\* the position of a stage in analyze_file (lines 40-68): reading the
\* source, _ast_analyze (extraction, then the relationship graph),
\* _radon_analyze, _difflib_analyze, _identify_modularity_issues,
\* _generate_refactoring_plan, the return
StageNumber(p) ==
    CASE p = "analyze_file"                -> 0
      [] p = "_ast_analyze"                -> 1
      [] p = "_radon_analyze"              -> 2
      [] p = "_difflib_analyze"            -> 3
      [] p = "_identify_modularity_issues" -> 4
      [] p = "_generate_refactoring_plan"  -> 5
      [] p = "returned"                    -> 6
      [] OTHER                             -> 7

\* C20: within one run every step of the analyzer either leaves
\* analyze_file with an exception or hands over to the next stage in the
\* order extraction and relationship graph, metrics, similarity, issue
\* detection, planning; no stage is entered twice, and issue detection is
\* entered only from the similarity stage, which is entered only from the
\* metrics stage.
C20_StagesInOrder ==
    [][ pc' # pc =>
          /\ StageNumber(pc) < 6
          /\ \/ pc' = "raised"
             \/ StageNumber(pc') = StageNumber(pc) + 1 ]_vars

\* a run that went through all the stages with metrics and a recorded
\* duplicate pair
C20_Witness ==
    /\ pc = "returned"
    /\ complexity_scores # EmptyDict
    /\ duplication_map # <<>>
    /\ function_relationships # EmptyDict
    /\ suggestions # <<>>

\* ---------------------------------------------------------------------
\* C18: a second analyze_file call on the same analyzer over the same
\* unchanged source returns with the function count, the class count, the
\* relationship graph, the recorded duplicate pairs and the issue list of
\* the first call.
C18_SecondRunSameResult ==
    (pc = "returned" /\ completed_runs # <<>>) =>
        LET first == completed_runs[1]
        IN  /\ Len(module_data.functions) = first.function_count
            /\ Len(module_data.classes) = first.class_count
            /\ function_relationships = first.function_relationships
            /\ duplication_map = first.duplication_map
            /\ issues = first.issues

\* ---------------------------------------------------------------------
\* every character of the text is whitespace
IsBlank(text) == \A i \in DOMAIN text : text[i] \in Whitespace

\* C15: a request whose text is empty or only whitespace never has a
\* temporary file and never constructs or runs the analyzer, and once its
\* handler has finished the response is the 400 error "Empty code
\* submitted.".
C15_EmptyCodeRejected ==
    IsBlank(code) =>
        /\ pc = "unconstructed"
        /\ tmp_file = "absent"
        /\ handler_pc \in {"analyze", "done"}
        /\ handler_pc = "done" =>
             response = HTTPException(400, "Empty code submitted.")

\* the handler has finished a request whose text is only whitespace
C15_Witness ==
    /\ code # <<>>
    /\ IsBlank(code)
    /\ handler_pc = "done"
    /\ response.status_code = 400

\* C16: when the handler has finished a request whose text it staged, the
\* temporary file has been removed; the response is the summary after a
\* returned analysis and the 500 error with the message of the exception
\* after one that raised.
C16_TempFileRemoved ==
    (handler_pc = "done" /\ ~IsBlank(code)) =>
        /\ tmp_file = "removed"
        /\ pc \in {"returned", "raised"}
        /\ pc = "returned" =>
             /\ response.status_code = 200
             /\ response.summary.results = suggestions
        /\ pc = "raised" =>
             response = HTTPException(500, StrOfException(raised))

\* the handler has finished a request whose analysis raised
C16_Witness ==
    /\ handler_pc = "done"
    /\ pc = "raised"
    /\ raised = "KeyError"
    /\ tmp_file = "removed"
    /\ response.status_code = 500

\* ---------------------------------------------------------------------
\* what the main loop of _cluster_functions leaves for the functions of
\* the state and the relationship graph rel
MainLoop(rel) ==
    ClusterLoop([clusters |-> <<>>, assigned |-> {}],
                module_data.functions, rel, 1, Len(module_data.functions))

\* C21: after the main loop of _cluster_functions every function name is
\* assigned: the list unassigned is empty and the clusters returned are
\* those of the main loop, nothing appended to the first.  It holds for
\* the relationship graph of the state and for an empty one.
C21_LeftoverStepIdle ==
    \A rel \in {function_relationships, EmptyDict} :
        /\ FunctionNames \subseteq MainLoop(rel).assigned
        /\ Unassigned(module_data.functions, MainLoop(rel).assigned) = <<>>
        /\ _cluster_functions(module_data.functions, rel)
                = MainLoop(rel).clusters

\* three functions, one pulled into the cluster of another and so passed
\* over by the main loop, and one without related functions
C21_Witness ==
    /\ AstDone
    /\ Len(module_data.functions) = 3
    /\ Len(Clusters) = 2
    /\ \E k \in DOMAIN Clusters : Len(Clusters[k]) = 2
    /\ \E f \in FunctionNames :
            function_relationships[f].related_functions = <<>>

\* ---------------------------------------------------------------------
\* the function record f calls its own name
CallsItself(f) == f.name \in Range(f.calls)

\* C22: a function that calls its own name is in its own called_by list,
\* is not one of the zero-caller functions of the orphan rule, and is not
\* named by an orphan_functions issue, whether or not another function
\* calls it.
C22_SelfCallerNotOrphan ==
    AstDone =>
        \A i \in DOMAIN module_data.functions :
            LET f == module_data.functions[i]
            IN  CallsItself(f) =>
                  /\ f.name \in
                        Range(function_relationships[f.name].called_by)
                  /\ ~IsOrphan(f, function_relationships)
                  /\ (IssuesReturned /\ HasIssue("orphan_functions")) =>
                        f.name \notin
                            Range(IssueOf("orphan_functions").functions)

\* a returned run over six public functions: one calls itself and has no
\* other caller, the other five have no caller; with the first counted
\* the orphan rule would fire, and it does not
C22_Witness ==
    /\ pc = "returned"
    /\ Len(module_data.functions) = OrphanThreshold + 1
    /\ \E i \in DOMAIN module_data.functions :
            LET f == module_data.functions[i]
            IN  /\ CallsItself(f)
                /\ ~f.is_private
                /\ function_relationships[f.name].called_by = <<f.name>>
                /\ \A j \in DOMAIN module_data.functions \ {i} :
                        IsOrphan(module_data.functions[j],
                                 function_relationships)
    /\ ~HasIssue("orphan_functions")

====
